---- MODULE Spec2Model ----
(***************************************************************************)
(* A model of the LLVM builder utilities (src/src/utils.rs) and of the     *)
(* macos-aarch64 building sequence (src/src/platforms/aarch64_macos.rs).   *)
(*                                                                         *)
(* Every function of the source is an operator that returns the pair       *)
(*   [trace |-> the events the call produced, in order,                    *)
(*    result |-> the anyhow::Result it returned]                           *)
(* and every action is one call of a public function from a fresh process. *)
(* What the outside world answers (exit statuses, I/O results, the         *)
(* downloader's summaries, the iteration order of a HashSet) is drawn with *)
(* \E in the action that makes the call; the host's environment variables *)
(* and its installed XCode are fixed when the process starts.              *)
(***************************************************************************)
EXTENDS Integers, Sequences, FiniteSets, TLC

VARIABLES dryRun, verbose, xcode, pc, last, prev

vars == <<dryRun, verbose, xcode, pc, last, prev>>

(***************************************************************************)
(* Bounds of the model.                                                    *)
(***************************************************************************)
MaxExtraArgs == 1
MaxResults == 1
MaxAttempts == 2

(***************************************************************************)
(* Program constants.                                                      *)
(***************************************************************************)
XCODE_MIN_VERSION == 11
XCODE_VERSION_15 == 15
HTTP_OK == 200
MUSL_SNAPSHOTS_URL == "https://git.musl-libc.org/cgit/musl/snapshot"
DIRECTORY_LLVM_TARGET == "target-llvm"

(***************************************************************************)
(* Values.                                                                 *)
(***************************************************************************)
\* anyhow::Result<()>: Ok(()) or an error whose message has a kind, the
\* text interpolated into it (subject) and, for an HTTP failure, a code.
Ok == [ok |-> TRUE, kind |-> "", subject |-> "", code |-> 0]

Err(kind, subject, code) == [ok |-> FALSE, kind |-> kind, subject |-> subject, code |-> code]

\* One command-line argument: a bare string, or NAME='value'.
Arg(s) == [name |-> s, value |-> <<>>]

Flag(name, value) == [name |-> name, value |-> value]

\* std::process::Command: the program and its arguments.
Cmd(prog, args) == [prog |-> prog, args |-> args]

\* An observable event of a call.
Event(kind, prog, args, via) == [kind |-> kind, prog |-> prog, args |-> args, via |-> via]

\* What happens when a std::process::Command is run.
ProcOutcome == {"spawn_error", "nonzero", "success"}

\* What happens in a fallible I/O call.
IoOutcome == {"io_error", "ok"}

Step(trace, result) == [trace |-> trace, result |-> result]

\* `?` forgotten: the rest of the function runs after an error too.
Try_runs_on(a, b) ==
    Step(a.trace \o b.trace, IF a.result.ok THEN b.result ELSE a.result)

\* The `?` operator: the rest of the function runs only after Ok.
Try(a, b) == IF a.result.ok THEN Step(a.trace \o b.trace, b.result) ELSE a

(***************************************************************************)
(* utils.rs                                                                *)
(***************************************************************************)
\* utils::command without the DRY_RUN test.
command_runs_in_dry_run(cmd, description, outcome, dry, verb) ==
    LET entered == <<Event("command", cmd.prog, cmd.args, description)>>
        printed == IF verb THEN <<Event("print", cmd.prog, cmd.args, description)>> ELSE <<>>
        spawned == <<Event("spawn", cmd.prog, cmd.args, "command")>>
    IN  IF outcome = "spawn_error"
        THEN Step(entered \o printed \o spawned, Err("process", description, 0))
        ELSE IF outcome # "success"
             THEN Step(entered \o printed \o spawned, Err("failed", description, 0))
             ELSE Step(entered \o printed \o spawned, Ok)

\* utils::command without the test of the exit status.
command_ignores_exit_status(cmd, description, outcome, dry, verb) ==
    LET entered == <<Event("command", cmd.prog, cmd.args, description)>>
        printed == IF verb THEN <<Event("print", cmd.prog, cmd.args, description)>> ELSE <<>>
    IN  IF dry
        THEN Step(entered \o printed \o <<Event("print", "dry run", <<>>, "")>>, Ok)
        ELSE LET spawned == <<Event("spawn", cmd.prog, cmd.args, "command")>>
             IN  IF outcome = "spawn_error"
                 THEN Step(entered \o printed \o spawned, Err("process", description, 0))
                 ELSE Step(entered \o printed \o spawned, Ok)

\* pub fn command(command, description)
command(cmd, description, outcome, dry, verb) ==
    LET entered == <<Event("command", cmd.prog, cmd.args, description)>>
        printed == IF verb THEN <<Event("print", cmd.prog, cmd.args, description)>> ELSE <<>>
    IN  IF dry
        THEN Step(entered \o printed \o <<Event("print", "dry run", <<>>, "")>>, Ok)
        ELSE LET spawned == <<Event("spawn", cmd.prog, cmd.args, "command")>>
             IN  IF outcome = "spawn_error"
                 THEN Step(entered \o printed \o spawned, Err("process", description, 0))
                 ELSE IF outcome # "success"
                      THEN Step(entered \o printed \o spawned, Err("failed", description, 0))
                      ELSE Step(entered \o printed \o spawned, Ok)

\* pub fn check_presence(name)
check_presence(name, outcome) ==
    LET spawned == <<Event("spawn", "which", <<Arg(name)>>, "direct")>>
    IN  IF outcome = "spawn_error"
        THEN Step(spawned, Err("which process", name, 0))
        ELSE IF outcome # "success"
             THEN Step(spawned, Err("missing", name, 0))
             ELSE Step(spawned, Ok)

\* pub fn ninja(build_dir)
ninja(build_dir, outcome, dry, verb) ==
    LET base == <<Arg("-C"), Arg(build_dir)>>
        args == IF dry THEN base \o <<Arg("-n")>> ELSE base
    IN  command(Cmd("ninja", args \o <<Arg("install")>>), "Running ninja install",
                outcome, dry, verb)

\* utils::download looking only at the last status of each summary.
download_results_last_status(results) ==
    LET bad(r) == \/ ~r.ok
                  \/ Len(r.status) > 0 /\ r.status[Len(r.status)][2] # HTTP_OK
        failing == {i \in 1..Len(results) : bad(results[i])}
    IN  IF failing = {}
        THEN Ok
        ELSE LET i == CHOOSE k \in failing : \A m \in failing : k <= m
                 r == results[i]
             IN  IF ~r.ok
                 THEN Err("transfer", r.error.url, r.error.code)
                 ELSE Err("http", r.status[Len(r.status)][1], r.status[Len(r.status)][2])

\* pub fn download(url, path).  lib is what the downloader answers: whether
\* the builder and the batch call succeed, and one Result<Summary> per
\* download.  A failed result carries the downloader's own report of the
\* transfer (URL and code), which is rendered into the message unchanged.
download_results(results) ==
    LET bad(r) == \/ ~r.ok
                  \/ \E j \in 1..Len(r.status) : r.status[j][2] # HTTP_OK
        failing == {i \in 1..Len(results) : bad(results[i])}
    IN  IF failing = {}
        THEN Ok
        ELSE LET i == CHOOSE k \in failing : \A m \in failing : k <= m
                 r == results[i]
             IN  IF ~r.ok
                 THEN Err("transfer", r.error.url, r.error.code)
                 ELSE LET j == CHOOSE k \in 1..Len(r.status) :
                                   /\ r.status[k][2] # HTTP_OK
                                   /\ \A m \in 1..(k - 1) : r.status[m][2] = HTTP_OK
                      IN  Err("http", r.status[j][1], r.status[j][2])

download(url, path, lib) ==
    LET built == <<Event("net", "builder", <<Arg(path)>>, "direct")>>
        asked == <<Event("net", "download", <<Arg(url)>>, "direct")>>
    IN  IF lib.build # "ok"
        THEN Step(built, Err("downloader", "builder", 0))
        ELSE IF lib.call # "ok"
             THEN Step(built \o asked, Err("downloader", "download", 0))
             ELSE Step(built \o asked, download_results(lib.results))

\* pub fn unpack_tar(filename, path)
unpack_tar(filename, path, open, unpack) ==
    IF open # "ok"
    THEN Step(<<Event("fs", "open", <<Arg(filename)>>, "direct")>>, Err("io", "open", 0))
    ELSE LET done == <<Event("fs", "open", <<Arg(filename)>>, "direct"),
                       Event("fs", "unpack", <<Arg(path)>>, "direct")>>
         IN  IF unpack # "ok" THEN Step(done, Err("io", "unpack", 0)) ELSE Step(done, Ok)

\* pub fn absolute_path(path)
absolute_path(path, cwd) ==
    IF cwd # "ok"
    THEN Step(<<Event("resolve", path, <<>>, "direct")>>, Err("io", "current_dir", 0))
    ELSE Step(<<Event("resolve", path, <<>>, "direct")>>, Ok)

\* The value absolute_path returns on success.
absolute(path) == "/cwd/" \o path

\* pub fn download_musl(name)
download_musl(name, env) ==
    LET tar_file_name == name \o ".tar.gz"
        url == MUSL_SNAPSHOTS_URL \o "/" \o tar_file_name
        musl_tarball == DIRECTORY_LLVM_TARGET \o "/" \o tar_file_name
    IN  Try(download(url, DIRECTORY_LLVM_TARGET, env.lib),
        Try(absolute_path(musl_tarball, env.cwd),
            unpack_tar(absolute(musl_tarball), DIRECTORY_LLVM_TARGET, env.open, env.unpack)))

\* A std::fs or fs_extra call.
fs(op, args, outcome) ==
    IF outcome # "ok"
    THEN Step(<<Event("fs", op, args, "direct")>>, Err("io", op, 0))
    ELSE Step(<<Event("fs", op, args, "direct")>>, Ok)

\* pub fn build_musl(build_directory, target_directory)
build_musl(build_directory, target_directory, env, dry, verb) ==
    LET include_directory == target_directory \o "/include/"
        asm_include_directory == include_directory \o "asm/"
        types_header_path == asm_include_directory \o "types.h"
    IN  Try(fs("create_dir_all", <<Arg(build_directory)>>, env.mkdir_build),
        Try(fs("create_dir_all", <<Arg(target_directory)>>, env.mkdir_target),
        Try(command(Cmd("../configure",
                        <<Flag("--prefix", <<target_directory>>),
                          Flag("--syslibdir", <<target_directory \o "/lib/">>),
                          Flag("--enable-wrapper", <<"clang">>)>>),
                    "MUSL configuring", env.configure, dry, verb),
        Try(command(Cmd("make", <<Arg("-j"), Arg("num_cpus")>>),
                    "MUSL building", env.make, dry, verb),
        Try(command(Cmd("make", <<Arg("install")>>),
                    "MUSL installing", env.install, dry, verb),
        Try(fs("create_dir_all", <<Arg(asm_include_directory)>>, env.mkdir_asm),
        Try(fs("copy", <<Arg("/usr/include/linux"), Arg(include_directory)>>, env.copy_linux),
        Try(fs("copy", <<Arg("/usr/include/asm-generic"), Arg(asm_include_directory)>>,
               env.copy_asm),
            command(Cmd("sed", <<Arg("-i"), Arg("s/asm-generic/asm/"), Arg(types_header_path)>>),
                    "types_header asm signature replacement", env.sed, dry, verb)))))))))

\* pub fn get_xcode_version().  out is what `grep version` printed: whether
\* the regex matches it, whether the captured digits fit a u32, and the
\* number they spell.
get_xcode_version(env) ==
    LET pkgutil == <<Event("spawn", "pkgutil",
                           <<Arg("--pkg-info"), Arg("com.apple.pkg.CLTools_Executables")>>,
                           "direct")>>
        grep == <<Event("spawn", "grep", <<Arg("version")>>, "direct")>>
    IN  IF env.pkgutil = "spawn_error"
        THEN [trace |-> pkgutil, result |-> Err("pkgutil process", "", 0), value |-> 0]
        ELSE IF env.grep = "spawn_error"
             THEN [trace |-> pkgutil \o grep, result |-> Err("grep process", "", 0), value |-> 0]
             ELSE IF ~env.out.matches
                  THEN [trace |-> pkgutil \o grep,
                        result |-> Err("Failed to parse XCode version", "version_string", 0),
                        value |-> 0]
                  ELSE IF ~env.out.fits
                       THEN [trace |-> pkgutil \o grep,
                             result |-> Err("Failed to parse XCode version", "error", 0),
                             value |-> 0]
                       ELSE [trace |-> pkgutil \o grep, result |-> Ok,
                             value |-> env.out.major]

(***************************************************************************)
(* llvm_path.rs, build_type.rs, platforms/mod.rs and platforms/shared.rs   *)
(***************************************************************************)
\* LLVMPath::llvm_module_llvm(), llvm_build_final(), llvm_target_final():
\* a fixed directory under the current working directory.
LLVM_MODULE_LLVM == "llvm/llvm"

LLVM_BUILD_FINAL == DIRECTORY_LLVM_TARGET \o "/build-final"

LLVM_TARGET_FINAL == DIRECTORY_LLVM_TARGET \o "/target-final"

llvm_path(directory, cwd) == absolute_path(directory, cwd)

\* enum BuildType and its Display.
BuildType == {"Debug", "Release", "RelWithDebInfo", "MinSizeRel"}

build_type_to_string(build_type) ==
    CASE build_type = "Debug" -> "Debug"
      [] build_type = "Release" -> "Release"
      [] build_type = "RelWithDebInfo" -> "RelWithDebInfo"
      [] build_type = "MinSizeRel" -> "MinSizeRel"

\* enum Platform and its Display.
Platform == {"Platform::EraVM", "Platform::EVM"}

platform_to_string(platform) ==
    CASE platform = "Platform::EraVM" -> "EraVM"
      [] platform = "Platform::EVM" -> "EVM"

SHARED_BUILD_OPTS ==
    <<Flag("-DPACKAGE_VENDOR", <<"Matter Labs">>), Flag("-DLLVM_BUILD_DOCS", <<"Off">>)>>

SHARED_BUILD_OPTS_NOT_MUSL ==
    <<Flag("-DLLVM_OPTIMIZED_TABLEGEN", <<"On">>)>>

shared_build_opts_tests(enabled) ==
    IF enabled
    THEN <<Flag("-DLLVM_BUILD_TESTS", <<"On">>), Flag("-DLLVM_INCLUDE_TESTS", <<"On">>)>>
    ELSE <<>>

shared_build_opts_coverage(enabled) ==
    IF enabled THEN <<Flag("-DLLVM_BUILD_INSTRUMENTED_COVERAGE", <<"On">>)>> ELSE <<>>

shared_build_opts_ccache(enabled) ==
    IF enabled
    THEN <<Flag("-DCMAKE_C_COMPILER_LAUNCHER", <<"ccache">>),
           Flag("-DCMAKE_CXX_COMPILER_LAUNCHER", <<"ccache">>)>>
    ELSE <<>>

shared_build_opts_assertions(enabled) ==
    IF enabled THEN <<Flag("-DLLVM_ENABLE_ASSERTIONS", <<"On">>)>> ELSE <<>>

\* The duplicate-library warning suppression, gated by the XCode version
\* the environment probe found.
macos_build_opts_ignore_dupicate_libs_warnings(xcode_version) ==
    IF xcode_version >= XCODE_VERSION_15
    THEN <<Flag("-DCMAKE_EXE_LINKER_FLAGS", <<"-Wl,-no_warn_duplicate_libraries">>),
           Flag("-DCMAKE_SHARED_LINKER_FLAGS", <<"-Wl,-no_warn_duplicate_libraries">>)>>
    ELSE <<>>

(***************************************************************************)
(* platforms/aarch64_macos.rs                                              *)
(***************************************************************************)
\* Vec<String>::join(";")
RECURSIVE join(_, _)
join(names, separator) ==
    IF Len(names) = 0 THEN <<>>
    ELSE IF Len(names) = 1 THEN names
    ELSE <<Head(names), separator>> \o join(Tail(names), separator)

\* The target list joined with ',' instead of ';'.
targets_to_build_comma(order) ==
    join([i \in 1..Len(order) |-> platform_to_string(order[i])], ",")

\* The target list cut to the first platform the HashSet yields.
targets_to_build_first_only(order) ==
    <<platform_to_string(order[1])>>

\* targets.into_iter().map(|platform| platform.to_string()).collect().join(";")
\* where order is the order in which the HashSet yields its elements.
targets_to_build(order) ==
    join([i \in 1..Len(order) |-> platform_to_string(order[i])], ";")

\* The arguments of the cmake command with the conditional and the
\* platform-only flags moved behind extra_args.
cmake_args_toggles_last(a, order, xcode_version) ==
    <<Arg("-S"), Arg(absolute(LLVM_MODULE_LLVM)),
      Arg("-B"), Arg(absolute(LLVM_BUILD_FINAL)),
      Arg("-G"), Arg("Ninja"),
      Flag("-DCMAKE_INSTALL_PREFIX", <<absolute(LLVM_TARGET_FINAL)>>),
      Flag("-DCMAKE_BUILD_TYPE", <<build_type_to_string(a.build_type)>>),
      Flag("-DLLVM_TARGETS_TO_BUILD", targets_to_build(order)),
      Flag("-DLLVM_ENABLE_PROJECTS", <<"lld">>)>>
    \o SHARED_BUILD_OPTS
    \o SHARED_BUILD_OPTS_NOT_MUSL
    \o a.extra_args
    \o shared_build_opts_tests(a.enable_tests)
    \o shared_build_opts_coverage(a.enable_coverage)
    \o shared_build_opts_ccache(a.use_ccache)
    \o shared_build_opts_assertions(a.enable_assertions)
    \o <<Flag("-DCMAKE_OSX_DEPLOYMENT_TARGET", <<"11.0">>)>>
    \o macos_build_opts_ignore_dupicate_libs_warnings(xcode_version)

\* The arguments of the cmake command of build().
cmake_args(a, order, xcode_version) ==
    <<Arg("-S"), Arg(absolute(LLVM_MODULE_LLVM)),
      Arg("-B"), Arg(absolute(LLVM_BUILD_FINAL)),
      Arg("-G"), Arg("Ninja"),
      Flag("-DCMAKE_INSTALL_PREFIX", <<absolute(LLVM_TARGET_FINAL)>>),
      Flag("-DCMAKE_BUILD_TYPE", <<build_type_to_string(a.build_type)>>),
      Flag("-DLLVM_TARGETS_TO_BUILD", targets_to_build(order)),
      Flag("-DLLVM_ENABLE_PROJECTS", <<"lld">>),
      Flag("-DCMAKE_OSX_DEPLOYMENT_TARGET", <<"11.0">>)>>
    \o shared_build_opts_tests(a.enable_tests)
    \o shared_build_opts_coverage(a.enable_coverage)
    \o SHARED_BUILD_OPTS
    \o SHARED_BUILD_OPTS_NOT_MUSL
    \o a.extra_args
    \o shared_build_opts_ccache(a.use_ccache)
    \o shared_build_opts_assertions(a.enable_assertions)
    \o macos_build_opts_ignore_dupicate_libs_warnings(xcode_version)

\* build() resolving the paths before it checks the tools.
build_resolves_paths_first(a, order, xcode_version, env, dry, verb) ==
    Try(llvm_path(LLVM_MODULE_LLVM, env.cwd_module),
    Try(llvm_path(LLVM_BUILD_FINAL, env.cwd_build),
    Try(llvm_path(LLVM_TARGET_FINAL, env.cwd_target),
    Try(check_presence("cmake", env.which_cmake),
    Try(check_presence("ninja", env.which_ninja),
    Try(command(Cmd("cmake", cmake_args(a, order, xcode_version)),
                "LLVM building cmake", env.cmake, dry, verb),
        ninja(absolute(LLVM_BUILD_FINAL), env.ninja, dry, verb)))))))

\* pub fn build(build_type, targets, enable_tests, enable_coverage,
\*              extra_args, use_ccache, enable_assertions)
build(a, order, xcode_version, env, dry, verb) ==
    Try(check_presence("cmake", env.which_cmake),
    Try(check_presence("ninja", env.which_ninja),
    Try(llvm_path(LLVM_MODULE_LLVM, env.cwd_module),
    Try(llvm_path(LLVM_BUILD_FINAL, env.cwd_build),
    Try(llvm_path(LLVM_TARGET_FINAL, env.cwd_target),
    Try(command(Cmd("cmake", cmake_args(a, order, xcode_version)),
                "LLVM building cmake", env.cmake, dry, verb),
        ninja(absolute(LLVM_BUILD_FINAL), env.ninja, dry, verb)))))))

(***************************************************************************)
(* The outside world.                                                      *)
(***************************************************************************)
Failed(outcome) == outcome \notin {"success", "ok"}

\* Outcomes the code never reads (those after the first failure) are fixed.
FirstFailureOnly(outcomes) ==
    \A i, j \in 1..Len(outcomes) : (i < j /\ Failed(outcomes[i])) => ~Failed(outcomes[j])

SeqsUpTo(S, n) == UNION {[1..k -> S] : k \in 0..n}

\* The orders in which a HashSet may yield its elements.
IterationOrders(S) ==
    {order \in [1..Cardinality(S) -> S] :
        \A i, j \in 1..Cardinality(S) : order[i] = order[j] => i = j}

XcodeVersions == {XCODE_MIN_VERSION, XCODE_VERSION_15}

BuildEnvs ==
    {e \in [which_cmake : ProcOutcome, which_ninja : ProcOutcome,
            cwd_module : IoOutcome, cwd_build : IoOutcome, cwd_target : IoOutcome,
            cmake : ProcOutcome, ninja : ProcOutcome] :
        FirstFailureOnly(<<e.which_cmake, e.which_ninja, e.cwd_module, e.cwd_build,
                           e.cwd_target, e.cmake, e.ninja>>)}

MuslEnvs ==
    {e \in [mkdir_build : IoOutcome, mkdir_target : IoOutcome, configure : ProcOutcome,
            make : ProcOutcome, install : ProcOutcome, mkdir_asm : IoOutcome,
            copy_linux : IoOutcome, copy_asm : IoOutcome, sed : ProcOutcome] :
        FirstFailureOnly(<<e.mkdir_build, e.mkdir_target, e.configure, e.make, e.install,
                           e.mkdir_asm, e.copy_linux, e.copy_asm, e.sed>>)}

\* (url, HTTP status) pairs of a Summary.
StatusEntries == {<<"https://mirror/a.tar.gz", HTTP_OK>>, <<"https://mirror/b.tar.gz", 404>>}

TransferErrors == {[url |-> "https://mirror/a.tar.gz", code |-> 0],
                   [url |-> "https://mirror/b.tar.gz", code |-> 404]}

NoError == [url |-> "", code |-> 0]

TransferResults ==
    {[ok |-> TRUE, status |-> s, error |-> NoError] : s \in SeqsUpTo(StatusEntries, MaxAttempts)}
    \cup {[ok |-> FALSE, status |-> <<>>, error |-> e] : e \in TransferErrors}

LibAnswers ==
    {[build |-> "io_error", call |-> "ok", results |-> <<>>],
     [build |-> "ok", call |-> "io_error", results |-> <<>>]}
    \cup {[build |-> "ok", call |-> "ok", results |-> r] :
            r \in SeqsUpTo(TransferResults, MaxResults)}

DownloadMuslEnvs ==
    {e \in [lib : LibAnswers, cwd : IoOutcome, open : IoOutcome, unpack : IoOutcome] :
        /\ FirstFailureOnly(<<e.cwd, e.open, e.unpack>>)
        /\ ~download("", "", e.lib).result.ok
             => (e.cwd = "ok" /\ e.open = "ok" /\ e.unpack = "ok")}

\* What `grep version` may print on a host with the given XCode.
XcodeOutputs(installed) ==
    {[matches |-> FALSE, fits |-> TRUE, major |-> 0],
     [matches |-> TRUE, fits |-> FALSE, major |-> 0],
     [matches |-> TRUE, fits |-> TRUE, major |-> installed]}

XcodeEnvs(installed) ==
    [pkgutil : {"spawn_error", "success"}, grep : {"spawn_error", "success"},
     out : XcodeOutputs(installed)]

\* Caller-supplied extra flags: opaque strings, among them one that spells
\* a flag build() also sets itself.
ExtraPool == {Arg("-DFOO=1"), Flag("-DCMAKE_BUILD_TYPE", <<"Debug">>)}

BuildArgs ==
    [build_type : BuildType, targets : (SUBSET Platform) \ {{}},
     enable_tests : BOOLEAN, enable_coverage : BOOLEAN,
     extra_args : SeqsUpTo(ExtraPool, MaxExtraArgs),
     use_ccache : BOOLEAN, enable_assertions : BOOLEAN]

\* The calls of build() that are explored: every input where the tools are
\* present and every command succeeds, and every outcome of the outside
\* world for the inputs with no toggle and no extra flag.
Plain(a) ==
    /\ a.build_type = "Release"
    /\ ~a.enable_tests /\ ~a.enable_coverage /\ ~a.use_ccache /\ ~a.enable_assertions
    /\ a.extra_args = <<>>

BuildSucceeds ==
    [which_cmake |-> "success", which_ninja |-> "success", cwd_module |-> "ok",
     cwd_build |-> "ok", cwd_target |-> "ok", cmake |-> "success", ninja |-> "success"]

BuildEnvsFor(a) == IF Plain(a) THEN BuildEnvs ELSE {BuildSucceeds}

(***************************************************************************)
(* The calls.                                                              *)
(***************************************************************************)
Commands == {Cmd("make", <<Arg("install")>>), Cmd("sed", <<Arg("-i")>>)}

Descriptions == {"MUSL installing", "replacement"}

Tools == {"cmake", "ninja"}

Dirs == {"build-final", "build-musl"}

MuslNames == {"musl-1.2.3"}

NoCall == [op |-> "none"]

NoFlags == [composed |-> FALSE, flags |-> <<>>]

Init ==
    /\ dryRun \in BOOLEAN
    /\ verbose \in BOOLEAN
    /\ xcode \in XcodeVersions
    /\ pc = "start"
    /\ last = NoCall
    /\ prev = NoFlags

Called(op, args, env, r) ==
    /\ pc = "start"
    /\ pc' = "done"
    /\ last' = [op |-> op, args |-> args, env |-> env, trace |-> r.trace, result |-> r.result]
    /\ UNCHANGED <<dryRun, verbose, xcode, prev>>

Command ==
    \E cmd \in Commands, d \in Descriptions, o \in ProcOutcome :
        Called("command", [cmd |-> cmd, description |-> d], o,
               command(cmd, d, o, dryRun, verbose))

CheckPresence ==
    \E name \in Tools, o \in ProcOutcome :
        Called("check_presence", [name |-> name], o, check_presence(name, o))

Ninja ==
    \E dir \in Dirs, o \in ProcOutcome :
        Called("ninja", [build_dir |-> dir], o, ninja(dir, o, dryRun, verbose))

Download ==
    \E url \in {MUSL_SNAPSHOTS_URL \o "/musl.tar.gz"}, lib \in LibAnswers :
        Called("download", [url |-> url, path |-> DIRECTORY_LLVM_TARGET], lib,
               download(url, DIRECTORY_LLVM_TARGET, lib))

DownloadMusl ==
    \E name \in MuslNames, env \in DownloadMuslEnvs :
        Called("download_musl", [name |-> name], env, download_musl(name, env))

BuildMusl ==
    \E dir \in Dirs, env \in MuslEnvs :
        Called("build_musl", [build_directory |-> dir, target_directory |-> "target-musl"], env,
               build_musl(dir, "target-musl", env, dryRun, verbose))

GetXcodeVersion ==
    \E env \in XcodeEnvs(xcode) :
        /\ pc = "start"
        /\ pc' = "done"
        /\ last' = LET r == get_xcode_version(env)
                   IN  [op |-> "get_xcode_version", args |-> <<>>, env |-> env,
                        trace |-> r.trace, result |-> r.result, value |-> r.value]
        /\ UNCHANGED <<dryRun, verbose, xcode, prev>>

\* The arguments of the cmake command a call handed to utils::command.
ComposedFlags(trace) ==
    LET at == {i \in 1..Len(trace) : trace[i].kind = "command" /\ trace[i].prog = "cmake"}
    IN  IF at = {} THEN NoFlags
        ELSE [composed |-> TRUE, flags |-> trace[CHOOSE i \in at : TRUE].args]

\* build() is called in a fresh process, or once more with the inputs of
\* the run before.
Build ==
    /\ pc = "start" \/ last.op = "build"
    /\ \E a \in (IF pc = "start" THEN BuildArgs ELSE {last.args}) :
       \E order \in IterationOrders(a.targets), env \in BuildEnvsFor(a) :
           LET r == build(a, order, xcode, env, dryRun, verbose)
           IN  /\ pc' = "done"
               /\ last' = [op |-> "build", args |-> a, env |-> env,
                           trace |-> r.trace, result |-> r.result]
               /\ prev' = IF pc = "start" THEN NoFlags ELSE ComposedFlags(last.trace)
               /\ UNCHANGED <<dryRun, verbose, xcode>>

Next ==
    \/ Command
    \/ CheckPresence
    \/ Ninja
    \/ Download
    \/ DownloadMusl
    \/ BuildMusl
    \/ GetXcodeVersion
    \/ Build

Spec == Init /\ [][Next]_vars

(***************************************************************************)
(* What a call did.                                                        *)
(***************************************************************************)
Returned == pc = "done"

Indices(trace) == 1..Len(trace)

SpawnsIn(trace) == {i \in Indices(trace) : trace[i].kind = "spawn"}

\* The subprocesses that utils::command itself started.
RunnerSpawnsIn(trace) == {i \in SpawnsIn(trace) : trace[i].via = "command"}

HandedToRunner(trace, prog) ==
    {i \in Indices(trace) : trace[i].kind = "command" /\ trace[i].prog = prog}

Count(flags, name) == Cardinality({i \in 1..Len(flags) : flags[i].name = name})

FirstOf(flags, name) ==
    flags[CHOOSE i \in 1..Len(flags) :
              flags[i].name = name /\ \A j \in 1..(i - 1) : flags[j].name # name]

(***************************************************************************)
(* C1: with DRY_RUN set, utils::command starts no subprocess and returns   *)
(* Ok for every command and description, whatever running the command      *)
(* would have produced and whether or not VERBOSE is set; no call of any   *)
(* function starts a subprocess through utils::command.                    *)
(***************************************************************************)
C1_DryRunNeverSpawns ==
    (Returned /\ dryRun) =>
        /\ RunnerSpawnsIn(last.trace) = {}
        /\ last.op = "command" => (last.result = Ok /\ SpawnsIn(last.trace) = {})

C1_Witness ==
    /\ Returned /\ dryRun /\ ~verbose
    /\ last.op = "command" /\ last.env = "spawn_error"
    /\ last.result.ok

(***************************************************************************)
(* C2: without DRY_RUN, utils::command starts the subprocess exactly once  *)
(* and returns Ok exactly when the process started and exited with         *)
(* success; a spawn failure and a non-zero exit each return an error that  *)
(* carries the description.                                                *)
(***************************************************************************)
C2_ExitStatusDecides ==
    (Returned /\ ~dryRun /\ last.op = "command") =>
        /\ Cardinality(SpawnsIn(last.trace)) = 1
        /\ \A i \in SpawnsIn(last.trace) :
               /\ last.trace[i].prog = last.args.cmd.prog
               /\ last.trace[i].args = last.args.cmd.args
        /\ last.result.ok <=> last.env = "success"
        /\ last.env = "spawn_error" =>
               (last.result.kind = "process" /\ last.result.subject = last.args.description)
        /\ last.env = "nonzero" =>
               (last.result.kind = "failed" /\ last.result.subject = last.args.description)

C2_Witness ==
    /\ Returned /\ ~dryRun /\ last.op = "command"
    /\ last.env = "nonzero"
    /\ last.result = Err("failed", last.args.description, 0)

(***************************************************************************)
(* C3: when `which cmake` reports that cmake is absent, or cmake is found  *)
(* and `which ninja` reports that ninja is absent, build returns the       *)
(* missing-tool error naming that tool, and it has resolved no path and    *)
(* handed neither the cmake nor the ninja command to utils::command; with  *)
(* DRY_RUN set or not.                                                     *)
(***************************************************************************)
NothingAfterTheChecks(trace) ==
    \A i \in Indices(trace) :
        /\ trace[i].kind \notin {"resolve", "command", "fs", "net"}
        /\ trace[i].kind = "spawn" => trace[i].prog = "which"

C3_MissingToolFastFail ==
    (Returned /\ last.op = "build") =>
        /\ last.env.which_cmake = "nonzero" =>
               /\ last.result = Err("missing", "cmake", 0)
               /\ NothingAfterTheChecks(last.trace)
        /\ (last.env.which_cmake = "success" /\ last.env.which_ninja = "nonzero") =>
               /\ last.result = Err("missing", "ninja", 0)
               /\ NothingAfterTheChecks(last.trace)

C3_Witness ==
    /\ Returned /\ last.op = "build" /\ dryRun
    /\ last.env.which_cmake = "success" /\ last.env.which_ninja = "nonzero"
    /\ last.result.kind = "missing" /\ last.result.subject = "ninja"

(***************************************************************************)
(* C4: download returns Ok exactly when the downloader was set up, the     *)
(* batch call succeeded, every transfer result is Ok and every status of   *)
(* every summary is 200; otherwise it returns an error, which for a        *)
(* status other than 200 gives that URL and that code, and for a failed    *)
(* transfer gives the downloader's report of it.                           *)
(***************************************************************************)
EveryStatusOk(lib) ==
    /\ lib.build = "ok"
    /\ lib.call = "ok"
    /\ \A i \in 1..Len(lib.results) :
           /\ lib.results[i].ok
           /\ \A j \in 1..Len(lib.results[i].status) : lib.results[i].status[j][2] = HTTP_OK

C5_NinjaPreviewIsExecuted ==
    (Returned /\ dryRun /\ last.op \in {"ninja", "build"}) =>
        \A i \in HandedToRunner(last.trace, "ninja") :
            /\ \E k \in 1..Len(last.trace[i].args) : last.trace[i].args[k] = Arg("-n")
            /\ \E j \in SpawnsIn(last.trace) :
                   /\ last.trace[j].prog = "ninja"
                   /\ last.trace[j].args = last.trace[i].args

(***************************************************************************)
(* C6: every subprocess a call starts is started inside utils::command,    *)
(* so that with DRY_RUN set no call starts a subprocess.                   *)
(***************************************************************************)
C6_SingleChokePoint ==
    Returned =>
        /\ \A i \in SpawnsIn(last.trace) : last.trace[i].via = "command"
        /\ dryRun => SpawnsIn(last.trace) = {}

(***************************************************************************)
(* The flags of the cmake command of a build call.                         *)
(***************************************************************************)
Composed == Returned /\ last.op = "build" /\ ComposedFlags(last.trace).composed

Flags == ComposedFlags(last.trace).flags

BaseFlags ==
    <<Arg("-S"), Arg(absolute(LLVM_MODULE_LLVM)), Arg("-B"), Arg(absolute(LLVM_BUILD_FINAL)),
      Arg("-G"), Arg("Ninja"),
      Flag("-DCMAKE_INSTALL_PREFIX", <<absolute(LLVM_TARGET_FINAL)>>),
      Flag("-DCMAKE_BUILD_TYPE", <<build_type_to_string(last.args.build_type)>>)>>

ProjectsFlag == <<Flag("-DLLVM_ENABLE_PROJECTS", <<"lld">>)>>

DeploymentTargetPin == <<Flag("-DCMAKE_OSX_DEPLOYMENT_TARGET", <<"11.0">>)>>

TargetListFlag == <<FirstOf(Flags, "-DLLVM_TARGETS_TO_BUILD")>>

ConditionalFlags ==
    shared_build_opts_tests(last.args.enable_tests)
    \o shared_build_opts_coverage(last.args.enable_coverage)
    \o shared_build_opts_ccache(last.args.use_ccache)
    \o shared_build_opts_assertions(last.args.enable_assertions)

NamesEachTargetOnce(value, targets) ==
    /\ Len(value) = 2 * Cardinality(targets) - 1
    /\ \A i \in 1..Len(value) : i % 2 = 0 => value[i] = ";"
    /\ {value[i] : i \in {k \in 1..Len(value) : k % 2 = 1}}
           = {platform_to_string(t) : t \in targets}

C8_ExactlyOnce ==
    Composed =>
        /\ Count(Flags, "-DCMAKE_BUILD_TYPE") = 1
        /\ FirstOf(Flags, "-DCMAKE_BUILD_TYPE").value
               = <<build_type_to_string(last.args.build_type)>>
        /\ Count(Flags, "-DLLVM_TARGETS_TO_BUILD") = 1
        /\ NamesEachTargetOnce(FirstOf(Flags, "-DLLVM_TARGETS_TO_BUILD").value,
                               last.args.targets)

(***************************************************************************)
(* C8 as amended: not counting what the caller passes in extra_args, which *)
(* is appended verbatim, the flags contain -DCMAKE_BUILD_TYPE exactly      *)
(* once, set to the given build type, and -DLLVM_TARGETS_TO_BUILD exactly  *)
(* once, whose value is the requested platforms, each exactly once and no  *)
(* other, separated by ';'; both precede every flag of extra_args.         *)
(***************************************************************************)
C8_ExactlyOnceBesidesExtraArgs ==
    Composed =>
        /\ Count(Flags, "-DCMAKE_BUILD_TYPE")
               = 1 + Count(last.args.extra_args, "-DCMAKE_BUILD_TYPE")
        /\ FirstOf(Flags, "-DCMAKE_BUILD_TYPE").value
               = <<build_type_to_string(last.args.build_type)>>
        /\ Count(Flags, "-DLLVM_TARGETS_TO_BUILD")
               = 1 + Count(last.args.extra_args, "-DLLVM_TARGETS_TO_BUILD")
        /\ NamesEachTargetOnce(FirstOf(Flags, "-DLLVM_TARGETS_TO_BUILD").value,
                               last.args.targets)

C8_Witness ==
    /\ Composed
    /\ Cardinality(last.args.targets) = 2
    /\ last.args.build_type = "MinSizeRel"
    /\ last.args.extra_args = <<Flag("-DCMAKE_BUILD_TYPE", <<"Debug">>)>>
    /\ Count(Flags, "-DCMAKE_BUILD_TYPE") = 2

(***************************************************************************)
(* C9 as stated: two builds with identical inputs hand identical flag      *)
(* sequences to cmake.                                                     *)
(***************************************************************************)
ComposedTwice == Composed /\ prev.composed

C9_Identical ==
    ComposedTwice => Flags = prev.flags

(***************************************************************************)
(* C9 as amended: two builds with identical inputs hand cmake flag         *)
(* sequences that are identical except for the order of the platform names *)
(* inside the target-list flag, which is the iteration order of the        *)
(* HashSet and may differ from one composition to the next; both name the  *)
(* same platforms, and with a single target the sequences are identical.   *)
(***************************************************************************)
C9_IdenticalUpToTargetOrder ==
    ComposedTwice =>
        /\ Len(Flags) = Len(prev.flags)
        /\ \A i \in 1..Len(Flags) :
               \/ Flags[i] = prev.flags[i]
               \/ /\ Flags[i].name = "-DLLVM_TARGETS_TO_BUILD"
                  /\ prev.flags[i].name = "-DLLVM_TARGETS_TO_BUILD"
                  /\ i = 9
                  /\ NamesEachTargetOnce(Flags[i].value, last.args.targets)
                  /\ NamesEachTargetOnce(prev.flags[i].value, last.args.targets)
        /\ Cardinality(last.args.targets) = 1 => Flags = prev.flags

C9_Witness ==
    /\ ComposedTwice
    /\ Cardinality(last.args.targets) = 2
    /\ Flags # prev.flags

(***************************************************************************)
(* C10: build, build_musl and download_musl run their steps in the order   *)
(* of the source; a step is started only if every step before it           *)
(* succeeded; the call returns Ok exactly when every step succeeded, and   *)
(* otherwise returns the error of the first failing step, after which no   *)
(* step runs and nothing is undone.                                        *)
(***************************************************************************)
\* The events that start a step: everything but what utils::command
\* prints and spawns inside its own step.
StartsStep(e) == e.kind \in {"command", "resolve", "fs", "net"} \/ e.via = "direct"

RECURSIVE StepsOf(_)
StepsOf(trace) ==
    IF trace = <<>> THEN <<>>
    ELSE LET e == Head(trace)
             label == IF e.kind = "command" THEN e.via
                      ELSE IF e.args = <<>> THEN "" ELSE e.args[1].name
         IN  IF StartsStep(e)
             THEN <<(<<e.kind, e.prog, label>>)>> \o StepsOf(Tail(trace))
             ELSE StepsOf(Tail(trace))

BuildSteps ==
    << <<"spawn", "which", "cmake">>, <<"spawn", "which", "ninja">>,
       <<"resolve", LLVM_MODULE_LLVM, "">>, <<"resolve", LLVM_BUILD_FINAL, "">>,
       <<"resolve", LLVM_TARGET_FINAL, "">>,
       <<"command", "cmake", "LLVM building cmake">>,
       <<"command", "ninja", "Running ninja install">> >>

BuildMuslSteps ==
    << <<"fs", "create_dir_all", last.args.build_directory>>,
       <<"fs", "create_dir_all", last.args.target_directory>>,
       <<"command", "../configure", "MUSL configuring">>,
       <<"command", "make", "MUSL building">>,
       <<"command", "make", "MUSL installing">>,
       <<"fs", "create_dir_all", last.args.target_directory \o "/include/asm/">>,
       <<"fs", "copy", "/usr/include/linux">>,
       <<"fs", "copy", "/usr/include/asm-generic">>,
       <<"command", "sed", "types_header asm signature replacement">> >>

DownloadMuslSteps ==
    << <<"net", "builder", DIRECTORY_LLVM_TARGET>>,
       <<"net", "download", MUSL_SNAPSHOTS_URL \o "/" \o last.args.name \o ".tar.gz">>,
       <<"resolve", DIRECTORY_LLVM_TARGET \o "/" \o last.args.name \o ".tar.gz", "">>,
       <<"fs", "open", "/cwd/" \o DIRECTORY_LLVM_TARGET \o "/" \o last.args.name \o ".tar.gz">>,
       <<"fs", "unpack", DIRECTORY_LLVM_TARGET>> >>

\* What the outside world answered to each step; utils::command does not
\* ask when DRY_RUN is set.
Ran(outcome) == IF dryRun THEN "success" ELSE outcome

BuildOutcomes ==
    <<last.env.which_cmake, last.env.which_ninja, last.env.cwd_module, last.env.cwd_build,
      last.env.cwd_target, Ran(last.env.cmake), Ran(last.env.ninja)>>

BuildMuslOutcomes ==
    <<last.env.mkdir_build, last.env.mkdir_target, Ran(last.env.configure),
      Ran(last.env.make), Ran(last.env.install), last.env.mkdir_asm,
      last.env.copy_linux, last.env.copy_asm, Ran(last.env.sed)>>

DownloadMuslOutcomes ==
    <<last.env.lib.build,
      IF EveryStatusOk([last.env.lib EXCEPT !.build = "ok"]) THEN "ok" ELSE "io_error",
      last.env.cwd, last.env.open, last.env.unpack>>

\* The text the error of a failing step carries.
NamesStep(result, step) ==
    CASE step[1] = "command" -> result.subject = step[3]
      [] step[1] = "spawn" -> result.subject = step[3]
      [] step[1] = "fs" -> result.kind = "io" /\ result.subject = step[2]
      [] step[1] = "resolve" -> result.kind = "io" /\ result.subject = "current_dir"
      [] step[1] = "net" -> result.kind \in {"downloader", "http", "transfer"}

InOrderUntilFirstFailure(steps, outcomes) ==
    LET ran == StepsOf(last.trace)
        n == Len(ran)
    IN  /\ n >= 1 /\ n <= Len(steps)
        /\ ran = SubSeq(steps, 1, n)
        /\ \A k \in 1..(n - 1) : ~Failed(outcomes[k])
        /\ last.result.ok <=> (n = Len(steps) /\ ~Failed(outcomes[n]))
        /\ ~last.result.ok => (Failed(outcomes[n]) /\ NamesStep(last.result, steps[n]))

C10_StepsInOrderAbortOnFailure ==
    Returned =>
        /\ last.op = "build" => InOrderUntilFirstFailure(BuildSteps, BuildOutcomes)
        /\ last.op = "build_musl" => InOrderUntilFirstFailure(BuildMuslSteps, BuildMuslOutcomes)
        /\ last.op = "download_musl" =>
               InOrderUntilFirstFailure(DownloadMuslSteps, DownloadMuslOutcomes)

C10_Witness ==
    /\ Returned /\ last.op = "build_musl" /\ ~dryRun
    /\ last.env.install = "nonzero"
    /\ last.result = Err("failed", "MUSL installing", 0)
    /\ Len(StepsOf(last.trace)) = 5
    /\ Cardinality(SpawnsIn(last.trace)) = 3

====
